---- MODULE Spec2Model ----
(***************************************************************************)
(* Trace replay loaders of brainstore-benchmark: load_braintrust.py and    *)
(* load_langsmith.py.  One run of a loader is modelled from start-up to    *)
(* process exit: the existence check of the trace file, argument           *)
(* validation, login, the line-by-line parse of the JSONL file, the id     *)
(* lookup table, the parent/children index, and the depth-first replay     *)
(* into the backend with its flush cadence.  The backend is seen only      *)
(* through the calls the loaders make on it (open, attach, close, flush),  *)
(* which are recorded in the history variable events; every such call may  *)
(* raise.                                                                  *)
(***************************************************************************)
EXTENDS Integers, Sequences, FiniteSets, TLC

(* ------------------------------ bounds -------------------------------- *)

MaxLines == 3
MaxIterations == 2
MaxLimit == 2
MaxBatch == 2

(* ---------------------------- input domain ----------------------------- *)

Loaders == {"braintrust", "langsmith"}

\* Line k of the file, when it is a record, carries id IdNames[k] and span_id
\* SpanNames[k] (ids are unique across the record store).
IdNames == <<"A", "B", "C", "D", "E">>
SpanNames == <<"a", "b", "c", "d", "e">>

DEFAULT_MODEL == "gpt-4o"
ORIGINAL_MODEL == "orig"

\* An optional integer argument: <<>> is Python's None, <<n>> the integer n.
None == <<>>
Some(n) == <<n>>

\* The span_parents field of a record: missing, JSON null, or a JSON list.
Absent == [tag |-> "absent", val |-> <<>>]
Null == [tag |-> "null", val |-> <<>>]
List(s) == [tag |-> "list", val |-> s]

ParentChoices ==
    {Absent, Null, List(<<>>)}
      \cup {List(<<SpanNames[p]>>) : p \in 1..MaxLines}
      \cup {List(<<SpanNames[pq[1]], SpanNames[pq[2]]>>) :
                pq \in {x \in (1..MaxLines) \X (1..MaxLines) : x[1] < x[2]}}

\* A line is malformed JSON ("bad"), well-formed JSON that is not an object
\* ("scalar"), or a JSON object with the record fields ("object").
\* model is the "model" entry of the record's metadata mapping.
BadLine ==
    [kind |-> "bad", id |-> "", span_id |-> "", span_parents |-> Absent,
     model |-> ORIGINAL_MODEL]
ScalarLine ==
    [kind |-> "scalar", id |-> "", span_id |-> "", span_parents |-> Absent,
     model |-> ORIGINAL_MODEL]
RecordLine(k, sp) ==
    [kind |-> "object", id |-> IdNames[k], span_id |-> SpanNames[k],
     span_parents |-> sp, model |-> ORIGINAL_MODEL]

LinesAt(k) == {BadLine, ScalarLine} \cup {RecordLine(k, sp) : sp \in ParentChoices}

RECURSIVE FilesOfLength(_)
FilesOfLength(n) ==
    IF n = 0 THEN {<<>>}
    ELSE {Append(f, l) : f \in FilesOfLength(n - 1), l \in LinesAt(n)}

Files == UNION {FilesOfLength(n) : n \in 0..MaxLines}

Args == [flatten : BOOLEAN,
         iterations : 0..MaxIterations,
         limit : {None} \cup {Some(n) : n \in 0..MaxLimit},
         batch_size : {None} \cup {Some(n) : n \in 0..MaxBatch}]


(* --------------------- pure helpers of the loaders --------------------- *)

\* Python truth value of an optional integer: None and 0 are false.
Truthy(opt) == opt # None /\ opt[1] # 0

\* A validation that lets a batch size of 0 through.
ValidateArgsBatchZero(a) ==
    IF a.iterations < 1 THEN "iterations"
    ELSE IF a.limit # None /\ a.limit[1] < 1 THEN "limit"
    ELSE IF a.batch_size # None /\ a.batch_size[1] < 0 THEN "batch-size"
    ELSE "ok"

\* The three checks after parse_args; the name of the first one that fails.
ValidateArgs(a) ==
    IF a.iterations < 1 THEN "iterations"
    ELSE IF a.limit # None /\ a.limit[1] < 1 THEN "limit"
    ELSE IF a.batch_size # None /\ a.batch_size[1] < 1 THEN "batch-size"
    ELSE "ok"

\* A limit check that is off by one.
LimitReachedLate(a, i) == Truthy(a.limit) /\ i > a.limit[1]

\* `if args.limit and i >= args.limit: break`, i the 0-based line index.
LimitReached(a, i) == Truthy(a.limit) /\ i >= a.limit[1]

\* json.loads(line): raises JSONDecodeError on a malformed line, returns the
\* decoded value (an object or not) otherwise.
JsonDecodeError(line) == line.kind = "bad"

\* row["id"] on a decoded value: TypeError unless the value is an object.
IsObject(row) == row.kind = "object"

\* `"span_parents" in row`
HasParents(row) == row.span_parents.tag # "absent"

\* `row["span_parents"] and len(row["span_parents"]) > 0`, the field present.
ParentsNonEmpty(row) ==
    row.span_parents.tag = "list" /\ Len(row.span_parents.val) > 0

\* An indexer that forgets the flatten policy.
IsChildIgnoringFlatten(flatten, row) == ParentsNonEmpty(row)

\* The branch condition of the indexer, the field present.
IsChild(flatten, row) == ~flatten /\ ParentsNonEmpty(row)

\* The lookup table: the last row carrying an id wins.
TreeOf(rs) ==
    [id \in {rs[k].id : k \in 1..Len(rs)} |->
        CHOOSE k \in 1..Len(rs) :
            rs[k].id = id /\ \A j \in 1..Len(rs) : rs[j].id = id => j <= k]

\* An indexer that registers a record under its first parent only.
AddChildFirstOnly(ch, parents, id) ==
    LET p == Head(parents)
    IN IF p \in DOMAIN ch THEN [ch EXCEPT ![p] = Append(@, id)]
       ELSE ch @@ (p :> <<id>>)

\* `for parent in row["span_parents"]: children.setdefault... append(row["id"])`
RECURSIVE AddChild(_, _, _)
AddChild(ch, parents, id) ==
    IF parents = <<>> THEN ch
    ELSE LET p == Head(parents)
             ch1 == IF p \in DOMAIN ch
                    THEN [ch EXCEPT ![p] = Append(@, id)]
                    ELSE ch @@ (p :> <<id>>)
         IN AddChild(ch1, Tail(parents), id)

\* A lookup that returns the children of some parent whatever span_id is asked.
ChildrenOfAnySpan(ch, span) ==
    IF DOMAIN ch = {} THEN <<>> ELSE ch[CHOOSE p \in DOMAIN ch : TRUE]

\* children.get(span_id, [])
ChildrenOf(ch, span) == IF span \in DOMAIN ch THEN ch[span] ELSE <<>>

\* A governor that counts the roots from 0 instead of from 1.
FlushNowFromZero(a, i) == Truthy(a.batch_size) /\ i % a.batch_size[1] = 0

\* `if args.batch_size and (idx + 1) % args.batch_size == 0`, idx 0-based.
FlushNow(a, i) == Truthy(a.batch_size) /\ (i + 1) % a.batch_size[1] = 0


\* Python's recursion limit, scaled to the model: deeper than any acyclic
\* nesting of MaxLines records.
RecursionLimit == MaxLines + 1

(* ------------------------------- state --------------------------------- *)

VARIABLES
    loader,       \* which script runs
    args,         \* the parsed command line
    file_exists,  \* whether data/big_traces.jsonl exists
    file,         \* its lines
    pc,           \* position of the script
    err,          \* "none", or why the process ended abnormally
    io,           \* start-up effects performed so far: "exists", "login", "open"
    line_no,      \* lines handed to json.loads so far (i of the parse loop)
    rows,         \* decoded values, in input order
    warnings,     \* 1-based numbers of the lines skipped with a warning
    tree,         \* id -> index in rows of the record it names
    children,     \* parent span_id -> ids of its children
    roots,        \* ids of the roots
    row_no,       \* rows indexed so far
    iteration,    \* 1-based iteration of the replay loop
    idx,          \* roots replayed so far in this iteration (idx of enumerate)
    stack,        \* open units, innermost last: [row, unit, next]
    events        \* history: the calls made on the backend

vars == <<loader, args, file_exists, file, pc, err, io, line_no, rows, warnings,
          tree, children, roots, row_no, iteration, idx, stack, events>>

config == <<loader, args, file_exists, file>>
parsed == <<line_no, rows, warnings>>
index == <<tree, children, roots, row_no>>
replay == <<iteration, idx, stack, events>>

Init ==
    /\ loader \in Loaders
    /\ args \in Args
    /\ file_exists \in BOOLEAN
    /\ file \in (IF file_exists THEN Files ELSE {<<>>})
    /\ pc = "start"
    /\ err = "none"
    /\ io = {}
    /\ line_no = 0
    /\ rows = <<>>
    /\ warnings = <<>>
    /\ tree = <<>>
    /\ children = <<>>
    /\ roots = <<>>
    /\ row_no = 0
    /\ iteration = 0
    /\ idx = 0
    /\ stack = <<>>
    /\ events = <<>>

(* ------------------------------ start-up ------------------------------- *)

\* The process ends with an uncaught exception or a non-zero exit.
Exit(why) == pc' = "exit" /\ err' = why

\* os.path.exists(TRACE_FILE), sys.exit(1) when it is missing.
CheckTraceFile ==
    /\ pc = "start"
    /\ io' = io \cup {"exists"}
    /\ IF file_exists THEN pc' = "validate" /\ err' = err
       ELSE Exit("missing_file")
    /\ UNCHANGED <<config, parsed, index, replay>>

\* parse_args and the three parser.error checks.
ParseArgs ==
    /\ pc = "validate"
    /\ IF ValidateArgs(args) = "ok" THEN pc' = "login" /\ err' = err
       ELSE Exit("usage")
    /\ UNCHANGED <<config, io, parsed, index, replay>>

\* braintrust.login(), which may raise; load_langsmith only sets the endpoint.
Login ==
    /\ pc = "login"
    /\ \/ /\ loader = "braintrust"
          /\ io' = io \cup {"login"}
          /\ \E ok \in BOOLEAN :
                IF ok THEN pc' = "open" /\ err' = err ELSE Exit("login")
       \/ /\ loader = "langsmith"
          /\ io' = io
          /\ pc' = "open"
          /\ err' = err
    /\ UNCHANGED <<config, parsed, index, replay>>

\* open(TRACE_FILE, "r")
OpenTraceFile ==
    /\ pc = "open"
    /\ io' = io \cup {"open"}
    /\ pc' = "parse"
    /\ UNCHANGED <<config, err, parsed, index, replay>>

(* ----------------------------- record store ---------------------------- *)

\* A record store without the except clause: a malformed line ends the run.
LoadLineUncaught(rs, ws, line, n) ==
    IF JsonDecodeError(line)
    THEN [rows |-> rs, warnings |-> ws, raised |-> TRUE]
    ELSE [rows |-> Append(rs, line), warnings |-> ws, raised |-> FALSE]

\* `try: rows.append(json.loads(line)) except json.JSONDecodeError: warning;
\* continue` on line number n: the rows and warnings after it, and whether an
\* exception leaves the loop.
LoadLine(rs, ws, line, n) ==
    IF JsonDecodeError(line)
    THEN [rows |-> rs, warnings |-> Append(ws, n), raised |-> FALSE]
    ELSE [rows |-> Append(rs, line), warnings |-> ws, raised |-> FALSE]

\* One turn of `for i, line in enumerate(f)`, or the end of the loop.
ParseLine ==
    /\ pc = "parse"
    /\ IF line_no < Len(file) /\ ~LimitReached(args, line_no)
       THEN LET r == LoadLine(rows, warnings, file[line_no + 1], line_no + 1)
            IN /\ line_no' = line_no + 1
               /\ rows' = r.rows
               /\ warnings' = r.warnings
               /\ IF r.raised THEN Exit("JSONDecodeError")
                  ELSE pc' = pc /\ err' = err
       ELSE /\ pc' = "tree"
            /\ UNCHANGED <<err, parsed>>
    /\ UNCHANGED <<config, io, index, replay>>

\* `for row in rows: tree[row["id"]] = row`
BuildTree ==
    /\ pc = "tree"
    /\ IF \A k \in 1..Len(rows) : IsObject(rows[k])
       THEN tree' = TreeOf(rows) /\ pc' = "index" /\ err' = err
       ELSE tree' = tree /\ Exit("TypeError")
    /\ UNCHANGED <<config, io, parsed, children, roots, row_no, replay>>

(* ----------------------------- tree indexer ---------------------------- *)

\* `del row["span_parents"]`
DeleteParents(rs, k) == [rs EXCEPT ![k].span_parents = Absent]

\* `del row["span_parents"]` raises KeyError when the field is missing;
\* load_langsmith guards it with `if "span_parents" in row`.
DeleteRaises(ld, row) == ld = "braintrust" /\ ~HasParents(row)

\* One turn of the indexing loop, or its end.
IndexRow ==
    /\ pc = "index"
    /\ IF row_no < Len(rows)
       THEN LET row == rows[row_no + 1] IN
            IF ~args.flatten /\ ~HasParents(row)
            THEN Exit("KeyError") /\ UNCHANGED <<rows, children, roots, row_no>>
            ELSE IF IsChild(args.flatten, row)
            THEN /\ children' = AddChild(children, row.span_parents.val, row.id)
                 /\ row_no' = row_no + 1
                 /\ UNCHANGED <<pc, err, rows, roots>>
            ELSE IF DeleteRaises(loader, row)
            THEN Exit("KeyError") /\ UNCHANGED <<rows, children, roots, row_no>>
            ELSE /\ rows' = DeleteParents(rows, row_no + 1)
                 /\ roots' = Append(roots, row.id)
                 /\ row_no' = row_no + 1
                 /\ UNCHANGED <<pc, err, children>>
       ELSE /\ pc' = "init"
            /\ UNCHANGED <<err, rows, children, roots, row_no>>
    /\ UNCHANGED <<config, io, line_no, warnings, tree, replay>>


(* ----------------------------- replay engine --------------------------- *)

Event(op, unit, parent, row, model) ==
    [op |-> op, unit |-> unit, parent |-> parent, row |-> row,
     iter |-> iteration, model |-> model]

OpenEvent(unit, parent, row) == Event("open", unit, parent, row, "")
AttachEvent(unit, row, model) == Event("attach", unit, 0, row, model)
CloseEvent(unit, row) == Event("close", unit, 0, row, "")
FlushEvent == Event("flush", 0, 0, 0, "")

\* An activation that starts at the second child of its record.
FrameSkipsFirstChild(row, unit) == [row |-> row, unit |-> unit, next |-> 2]

Frame(row, unit) == [row |-> row, unit |-> unit, next |-> 1]

\* A fresh handle for the unit being opened.
NewUnit(evs) == Cardinality({i \in 1..Len(evs) : evs[i].op = "open"}) + 1

\* The units a `with` statement closes, innermost first, while an exception
\* leaves the frames of st.
RECURSIVE ExitAll(_)
ExitAll(st) ==
    IF st = <<>> THEN <<>>
    ELSE <<CloseEvent(st[Len(st)].unit, st[Len(st)].row)>>
            \o ExitAll(SubSeq(st, 1, Len(st) - 1))

\* load_braintrust opens every unit in a `with` statement, whose exit closes
\* the unit when an exception passes; load_langsmith closes explicitly, after
\* the children, and not at all when an exception passes.
Unwind(ld, st) == IF ld = "braintrust" THEN ExitAll(st) ELSE <<>>

\* A replay that logs a failed call and goes on with the next root.
RaiseAndSkip(why, evs, st) ==
    /\ err' = why
    /\ pc' = "governor"
    /\ events' = evs \o Unwind(loader, st)
    /\ stack' = <<>>

\* An exception raised with the events evs emitted and the units of st open:
\* nothing in either script catches it.
Raise(why, evs, st) ==
    /\ Exit(why)
    /\ events' = evs \o Unwind(loader, st)
    /\ stack' = <<>>

\* A loader that opens every child under the logger instead of under its parent.
OpeningUnderLogger(ld, unit, parent, k, model) ==
    IF ld = "braintrust" THEN <<OpenEvent(unit, 0, k)>>
    ELSE <<OpenEvent(unit, 0, k), AttachEvent(unit, k, model)>>

\* What opening a unit for row k emits: start_span opens and span.log attaches
\* in a later step; RunTree(...) and create_child(...) take the payload at once.
Opening(ld, unit, parent, k, model) ==
    IF ld = "braintrust" THEN <<OpenEvent(unit, parent, k)>>
    ELSE <<OpenEvent(unit, parent, k), AttachEvent(unit, k, model)>>

AfterOpening(ld) == IF ld = "braintrust" THEN "attach" ELSE "children"

\* braintrust.init_logger(PROJECT_NAME) / Client(), and the loop entry.
InitLogger ==
    /\ pc = "init"
    /\ pc' = "root"
    /\ iteration' = 1
    /\ idx' = 0
    /\ UNCHANGED <<config, err, io, parsed, index, stack, events>>

\* A loop that stops one root early.
MoreRootsButLast(rts, i) == i + 1 < Len(rts)

\* `for idx, root in enumerate(roots)`: whether a root is left after i of them.
MoreRoots(rts, i) == i < Len(rts)

\* Open the top-level unit of the next root.
OpenRoot ==
    /\ pc = "root"
    /\ MoreRoots(roots, idx)
    /\ LET k == tree[roots[idx + 1]]
           h == NewUnit(events)
       IN \E ok \in BOOLEAN :
            IF ok
            THEN /\ events' = events \o Opening(loader, h, 0, k, rows[k].model)
                 /\ stack' = <<Frame(k, h)>>
                 /\ pc' = AfterOpening(loader)
                 /\ err' = err
            ELSE Raise("backend", events, <<>>)
    /\ UNCHANGED <<config, io, parsed, index, iteration, idx>>

\* A loader that writes the model tag into the root's metadata after span.log
\* has attached it.
AttachTagsAfterLog ==
    /\ pc = "attach"
    /\ LET top == stack[Len(stack)]
           isRoot == Len(stack) = 1
           rs == IF isRoot THEN [rows EXCEPT ![top.row].model = DEFAULT_MODEL]
                 ELSE rows
           model == IF isRoot THEN rows[top.row].model ELSE ""
       IN /\ rows' = rs
          /\ \E ok \in BOOLEAN :
               IF ok
               THEN /\ events' = Append(events, AttachEvent(top.unit, top.row, model))
                    /\ pc' = "children"
                    /\ UNCHANGED <<err, stack>>
               ELSE Raise("backend", events, stack)
    /\ UNCHANGED <<config, io, line_no, warnings, index, iteration, idx>>

\* load_braintrust only: the model tag is written into the root's metadata,
\* then span.log attaches the payload (for a child: input and output only).
Attach ==
    /\ pc = "attach"
    /\ LET top == stack[Len(stack)]
           isRoot == Len(stack) = 1
           rs == IF isRoot THEN [rows EXCEPT ![top.row].model = DEFAULT_MODEL]
                 ELSE rows
           model == IF isRoot THEN rs[top.row].model ELSE ""
       IN /\ rows' = rs
          /\ \E ok \in BOOLEAN :
               IF ok
               THEN /\ events' = Append(events, AttachEvent(top.unit, top.row, model))
                    /\ pc' = "children"
                    /\ UNCHANGED <<err, stack>>
               ELSE Raise("backend", events, stack)
    /\ UNCHANGED <<config, io, line_no, warnings, index, iteration, idx>>

\* A replay that visits the children of a unit last-registered first.
KidsReversed(st) ==
    LET ks == ChildrenOf(children, rows[st[Len(st)].row].span_id)
    IN [i \in 1..Len(ks) |-> ks[Len(ks) + 1 - i]]

\* The children registered under the span_id of the innermost open unit.
Kids(st) == ChildrenOf(children, rows[st[Len(st)].row].span_id)

\* One turn of `for child_id in children.get(...)`: log_child_span /
\* log_child_run opens the child's unit under the innermost open unit.
OpenChild ==
    /\ pc = "children"
    /\ stack[Len(stack)].next <= Len(Kids(stack))
    /\ LET top == stack[Len(stack)]
           k == tree[Kids(stack)[top.next]]
           h == NewUnit(events)
           st == [stack EXCEPT ![Len(stack)].next = top.next + 1]
       IN IF Len(stack) >= RecursionLimit
          THEN Raise("RecursionError", events, st)
          ELSE \E ok \in BOOLEAN :
                 IF ok
                 THEN /\ events' = events \o Opening(loader, h, top.unit, k, "")
                      /\ stack' = Append(st, Frame(k, h))
                      /\ pc' = AfterOpening(loader)
                      /\ err' = err
                 ELSE Raise("backend", events, st)
    /\ UNCHANGED <<config, io, parsed, index, iteration, idx>>

\* A replay that goes on to the next root as soon as one unit is closed,
\* leaving the enclosing units open.
CloseUnitLeavesParents ==
    /\ pc = "children"
    /\ stack[Len(stack)].next > Len(Kids(stack))
    /\ LET top == stack[Len(stack)]
           st == SubSeq(stack, 1, Len(stack) - 1)
       IN \E ok \in BOOLEAN :
            IF ok
            THEN /\ events' = Append(events, CloseEvent(top.unit, top.row))
                 /\ stack' = <<>>
                 /\ pc' = "governor"
                 /\ err' = err
            ELSE Raise("backend", events, st)
    /\ UNCHANGED <<config, io, parsed, index, iteration, idx>>

\* The children are done: the `with` block ends / end() and post() are called.
CloseUnit ==
    /\ pc = "children"
    /\ stack[Len(stack)].next > Len(Kids(stack))
    /\ LET top == stack[Len(stack)]
           st == SubSeq(stack, 1, Len(stack) - 1)
       IN \E ok \in BOOLEAN :
            IF ok
            THEN /\ events' = Append(events, CloseEvent(top.unit, top.row))
                 /\ stack' = st
                 /\ pc' = IF st = <<>> THEN "governor" ELSE "children"
                 /\ err' = err
            ELSE Raise("backend", events, st)
    /\ UNCHANGED <<config, io, parsed, index, iteration, idx>>

(* ----------------------------- flush governor -------------------------- *)

\* A governor that also flushes after every root when no batch size is given.
GovernorFlushesUnbatched ==
    /\ pc = "governor"
    /\ IF FlushNow(args, idx) \/ args.batch_size = None
       THEN \E ok \in BOOLEAN :
              IF ok
              THEN /\ events' = Append(events, FlushEvent)
                   /\ idx' = idx + 1
                   /\ pc' = "root"
                   /\ UNCHANGED <<err, stack>>
              ELSE Raise("backend", events, <<>>) /\ idx' = idx
       ELSE /\ idx' = idx + 1
            /\ pc' = "root"
            /\ UNCHANGED <<err, stack, events>>
    /\ UNCHANGED <<config, io, parsed, index, iteration>>

\* After a root's unit is closed: the periodic flush, then the next root.
Governor ==
    /\ pc = "governor"
    /\ IF FlushNow(args, idx)
       THEN \E ok \in BOOLEAN :
              IF ok
              THEN /\ events' = Append(events, FlushEvent)
                   /\ idx' = idx + 1
                   /\ pc' = "root"
                   /\ UNCHANGED <<err, stack>>
              ELSE Raise("backend", events, <<>>) /\ idx' = idx
       ELSE /\ idx' = idx + 1
            /\ pc' = "root"
            /\ UNCHANGED <<err, stack, events>>
    /\ UNCHANGED <<config, io, parsed, index, iteration>>

\* A loader that requests no flush at the end of an iteration.
NoFlushAtIterationEnd(ld) == FALSE

\* Whether the script flushes when the roots of an iteration are exhausted:
\* load_langsmith does, load_braintrust only logs the iteration's time.
FlushesAtIterationEnd(ld) == ld = "langsmith"

\* Whether the script flushes after the last iteration, before it ends.
FlushesAtExit(ld) == ld = "braintrust"

\* The next iteration of `for i in range(args.iterations)`, or the loop's end.
NextIteration ==
    IF iteration < args.iterations
    THEN iteration' = iteration + 1 /\ idx' = 0 /\ pc' = "root"
    ELSE iteration' = iteration /\ idx' = idx /\ pc' = "final"

\* The roots of the iteration are exhausted.
EndIteration ==
    /\ pc = "root"
    /\ ~MoreRoots(roots, idx)
    /\ IF FlushesAtIterationEnd(loader)
       THEN \E ok \in BOOLEAN :
              IF ok
              THEN /\ events' = Append(events, FlushEvent)
                   /\ NextIteration
                   /\ UNCHANGED <<err, stack>>
              ELSE Raise("backend", events, <<>>) /\ UNCHANGED <<iteration, idx>>
       ELSE NextIteration /\ UNCHANGED <<err, stack, events>>
    /\ UNCHANGED <<config, io, parsed, index>>

\* After the loop: load_braintrust's bt_logger.flush(), then the last log line.
Finish ==
    /\ pc = "final"
    /\ IF FlushesAtExit(loader)
       THEN \E ok \in BOOLEAN :
              IF ok
              THEN /\ events' = Append(events, FlushEvent)
                   /\ pc' = "done"
                   /\ UNCHANGED <<err, stack>>
              ELSE Raise("backend", events, <<>>)
       ELSE pc' = "done" /\ UNCHANGED <<err, stack, events>>
    /\ UNCHANGED <<config, io, parsed, index, iteration, idx>>

(* ---------------------------- specification ---------------------------- *)

Next ==
    \/ CheckTraceFile
    \/ ParseArgs
    \/ Login
    \/ OpenTraceFile
    \/ ParseLine
    \/ BuildTree
    \/ IndexRow
    \/ InitLogger
    \/ OpenRoot
    \/ Attach
    \/ OpenChild
    \/ CloseUnit
    \/ Governor
    \/ EndIteration
    \/ Finish

Spec == Init /\ [][Next]_vars


(* ---------- runs over records that share an id or repeat a parent ------ *)

\* span_parents lists that name a parent once or twice over.
RepeatedParentChoices ==
    {List(<<>>)}
      \cup {List(<<SpanNames[p]>>) : p \in 1..MaxLines}
      \cup {List(<<SpanNames[p], SpanNames[p]>>) : p \in 1..MaxLines}

\* Line k as a record that carries the id of line j: nothing in the scripts
\* rejects a second record with an id already seen.
SharedIdLine(k, j, sp) == [RecordLine(k, sp) EXCEPT !.id = IdNames[j]]

SharedLinesAt(k) ==
    {SharedIdLine(k, j, sp) : j \in 1..k, sp \in RepeatedParentChoices}

RECURSIVE SharedFilesOfLength(_)
SharedFilesOfLength(n) ==
    IF n = 0 THEN {<<>>}
    ELSE {Append(f, l) : f \in SharedFilesOfLength(n - 1), l \in SharedLinesAt(n)}

SharedFiles == UNION {SharedFilesOfLength(n) : n \in 0..MaxLines}

\* A run of one iteration, without limit or batch size, over such a file.
InitShared ==
    /\ loader \in Loaders
    /\ args \in {a \in Args : a.iterations = 1 /\ a.limit = None
                                /\ a.batch_size = None}
    /\ file_exists = TRUE
    /\ file \in SharedFiles
    /\ pc = "start"
    /\ err = "none"
    /\ io = {}
    /\ line_no = 0
    /\ rows = <<>>
    /\ warnings = <<>>
    /\ tree = <<>>
    /\ children = <<>>
    /\ roots = <<>>
    /\ row_no = 0
    /\ iteration = 0
    /\ idx = 0
    /\ stack = <<>>
    /\ events = <<>>

SpecShared == InitShared /\ [][Next]_vars

(* ========================= properties of a run ========================= *)

\* The parse loop has ended.
Parsed ==
    \/ pc \in {"tree", "index", "init", "root", "attach", "children", "governor",
               "final", "done"}
    \/ pc = "exit" /\ err \in {"TypeError", "KeyError", "backend", "RecursionError"}

\* The indexing loop has ended without an error.
Indexed ==
    \/ pc \in {"init", "root", "attach", "children", "governor", "final", "done"}
    \/ pc = "exit" /\ err \in {"backend", "RecursionError"}

\* The lines handed to the decoder, and those of them that decode.
Consumed == SubSeq(file, 1, line_no)
Decoded(ls) == SelectSeq(ls, LAMBDA l : l.kind # "bad")
Input == Decoded(Consumed)

Range(f) == {f[x] : x \in DOMAIN f}

\* Iteration it has replayed all its roots.
Completed(it) ==
    /\ it \in 1..iteration
    /\ err = "none"
    /\ it < iteration \/ pc \in {"final", "done"}

EventsOf(it) == SelectSeq(events, LAMBDA e : e.iter = it)

\* The units left open by the events evs, innermost last, starting from the
\* open units st; <<-1>> when an open or a close is out of place: a unit opened
\* under a parent that is not the innermost open unit (0: no unit is open), or
\* a close of a unit that is not the innermost open one.
RECURSIVE OpenUnits(_, _)
OpenUnits(evs, st) ==
    IF evs = <<>> THEN st
    ELSE LET e == Head(evs)
             top == IF st = <<>> THEN 0 ELSE st[Len(st)]
         IN CASE e.op = "open" ->
                    IF e.parent = top
                    THEN OpenUnits(Tail(evs), Append(st, e.unit))
                    ELSE <<-1>>
              [] e.op = "close" ->
                    IF st # <<>> /\ e.unit = top
                    THEN OpenUnits(Tail(evs), SubSeq(st, 1, Len(st) - 1))
                    ELSE <<-1>>
              [] OTHER -> OpenUnits(Tail(evs), st)

\* The open and close events of iteration it, as <<op, record id>>.
OpenClose(it) ==
    LET oc == SelectSeq(EventsOf(it), LAMBDA e : e.op \in {"open", "close"})
    IN [i \in 1..Len(oc) |-> <<oc[i].op, rows[oc[i].row].id>>]

\* The example of the specification: A is a root, B a child of A, C of B.
ChainFile ==
    <<RecordLine(1, List(<<>>)), RecordLine(2, List(<<"a">>)),
      RecordLine(3, List(<<"b">>))>>

\* C1: the units are emitted properly nested, depth first.  Every open names
\* as its parent the innermost unit open at that moment (none for a root) and
\* every close closes the innermost open unit, so a child is opened after and
\* closed before its parent and a sibling's subtree is closed before the next
\* sibling is opened; a nested unit is that of a record registered as a child
\* of its parent's span_id; the open units are those the replay is inside of,
\* and none is left open between two roots.  This is stated of the calls made
\* until one of them fails (C10 is about what follows a failure).  For the
\* chain A, B, C without flatten every completed iteration emits
\* open(A) open(B) open(C) close(C) close(B) close(A).
C1_NestedDepthFirst ==
    /\ err = "none" =>
          OpenUnits(events, <<>>) = [i \in 1..Len(stack) |-> stack[i].unit]
    /\ \A i \in 1..Len(events) :
          events[i].op = "open" /\ events[i].parent # 0 =>
             \E j \in 1..(i - 1) :
                /\ events[j].op = "open"
                /\ events[j].unit = events[i].parent
                /\ \E n \in DOMAIN ChildrenOf(children, rows[events[j].row].span_id) :
                      tree[ChildrenOf(children, rows[events[j].row].span_id)[n]]
                          = events[i].row
    /\ \A it \in 1..iteration :
          (Completed(it) /\ file = ChainFile /\ line_no = 3 /\ ~args.flatten) =>
             OpenClose(it) = << <<"open", "A">>, <<"open", "B">>, <<"open", "C">>,
                                <<"close", "C">>, <<"close", "B">>, <<"close", "A">> >>

\* C1 witness: the chain has been replayed, three units deep, in both
\* iterations of a run.
C1_Witness ==
    /\ pc = "done"
    /\ file = ChainFile
    /\ ~args.flatten
    /\ line_no = 3
    /\ args.iterations = 2
    /\ Len(SelectSeq(events, LAMBDA e : e.op = "close")) = 6


FlushCount(it) == Len(SelectSeq(EventsOf(it), LAMBDA e : e.op = "flush"))

\* The calls of an iteration are made before those of the next one.
IterationsInOrder ==
    \A i \in 1..Len(events) : \A j \in i..Len(events) :
        events[i].iter <= events[j].iter

\* Root units closed among the first n events of es.
RootsClosed(es, n) ==
    Cardinality({i \in 1..n :
        /\ es[i].op = "close"
        /\ \E j \in 1..i : es[j].op = "open" /\ es[j].unit = es[i].unit
                             /\ es[j].parent = 0})

\* The flush at position i of es is a periodic one: it directly follows the
\* close of a root whose 1-based position in the iteration is a multiple of b.
Periodic(es, i, b) ==
    /\ i > 1
    /\ es[i - 1].op = "close"
    /\ RootsClosed(es, i) > 0
    /\ RootsClosed(es, i) % b = 0
    /\ RootsClosed(es, i - 1) = RootsClosed(es, i - 2) + 1

\* C2 as stated: with a batch size B, in both loaders and in each of the N
\* iterations of a completed run over K roots, floor(K/B) flushes are
\* requested while the roots are replayed and exactly one more after the
\* iteration's last root, before the next iteration's first root (or the end).
C2_FlushEveryIteration ==
    (pc = "done" /\ args.batch_size # None /\ Len(roots) >= 1) =>
        /\ IterationsInOrder
        /\ \A it \in 1..args.iterations :
              LET es == EventsOf(it) IN
              /\ FlushCount(it) = (Len(roots) \div args.batch_size[1]) + 1
              /\ es[Len(es)].op = "flush"
              /\ \A i \in 1..(Len(es) - 1) :
                    es[i].op = "flush" => Periodic(es, i, args.batch_size[1])

\* C2 amended: the floor(K/B) periodic flushes are requested in every
\* iteration by both loaders, each directly after the close of a root whose
\* position is a multiple of B.  load_langsmith requests one more flush at the
\* end of every iteration; load_braintrust requests one more flush only after
\* the last iteration, as the last call of the run, and none between
\* iterations.
C2_FlushCadence ==
    (pc = "done" /\ args.batch_size # None) =>
        /\ IterationsInOrder
        /\ \A it \in 1..args.iterations :
              LET es == EventsOf(it)
                  extra == loader = "langsmith" \/ it = args.iterations
                  last == IF extra THEN Len(es) - 1 ELSE Len(es)
              IN
              /\ FlushCount(it) = (Len(roots) \div args.batch_size[1])
                                     + (IF extra THEN 1 ELSE 0)
              /\ extra => es[Len(es)].op = "flush"
              /\ \A i \in 1..last :
                    es[i].op = "flush" => Periodic(es, i, args.batch_size[1])

\* C2 witness: load_braintrust has replayed three roots twice with a batch
\* size of 2: one periodic flush per iteration and the flush at exit.
C2_Witness ==
    /\ pc = "done"
    /\ loader = "braintrust"
    /\ args.batch_size = Some(2)
    /\ args.iterations = 2
    /\ Len(roots) = 3
    /\ FlushCount(1) = 1
    /\ FlushCount(2) = 2


\* The ids of the decoded records, in input order.
InputIds == [k \in 1..Len(Input) |-> Input[k].id]

\* Record r declares one parent at least.
DeclaresParents(r) == r.span_parents.tag = "list" /\ r.span_parents.val # <<>>

\* C3: without flatten, once the index is built, every record that declares
\* parents is listed under each of them in children, and is not in roots.
C3_ChildrenUnderEveryParent ==
    (Indexed /\ ~args.flatten) =>
        \A k \in 1..Len(Input) :
            DeclaresParents(Input[k]) =>
                /\ \A n \in 1..Len(Input[k].span_parents.val) :
                      LET p == Input[k].span_parents.val[n] IN
                      /\ p \in DOMAIN children
                      /\ Input[k].id \in Range(children[p])
                /\ Input[k].id \notin Range(roots)

\* C3 witness: an index built without flatten over a record with two parents
\* and a root.
C3_Witness ==
    /\ Indexed
    /\ ~args.flatten
    /\ roots # <<>>
    /\ \E k \in 1..Len(Input) :
          /\ DeclaresParents(Input[k])
          /\ Len(Input[k].span_parents.val) = 2

\* C4: with flatten, once the index is built, roots is the sequence of all
\* record ids in input order and children is empty, whatever the records
\* declare.
C4_FlattenIndex ==
    (Indexed /\ args.flatten) =>
        /\ roots = InputIds
        /\ DOMAIN children = {}

\* C4 witness: a flattened index over two records, one of which declares a
\* parent.
C4_Witness ==
    /\ Indexed
    /\ args.flatten
    /\ Len(roots) >= 2
    /\ \E k \in 1..Len(Input) : DeclaresParents(Input[k])

\* The rows whose units iteration it has opened, in order.
Opened(it) ==
    LET os == SelectSeq(EventsOf(it), LAMBDA e : e.op = "open")
    IN [i \in 1..Len(os) |-> os[i].row]

IsPrefix(s, t) == Len(s) <= Len(t) /\ s = SubSeq(t, 1, Len(s))

\* C5: with flatten no nested unit is ever opened, every iteration opens the
\* top-level units of the parsed records in input order, and an iteration that
\* has replayed its roots has opened exactly one unit per parsed record.
C5_FlattenReplay ==
    args.flatten =>
        /\ \A i \in 1..Len(events) : events[i].op = "open" => events[i].parent = 0
        /\ \A it \in 1..iteration :
              /\ IsPrefix(Opened(it), [k \in 1..Len(rows) |-> k])
              /\ Completed(it) => Opened(it) = [k \in 1..Len(rows) |-> k]

\* C5 witness: a flattened run of two iterations over three records that
\* declare parents has ended.
C5_Witness ==
    /\ pc = "done"
    /\ args.flatten
    /\ args.iterations = 2
    /\ Len(rows) = 3
    /\ \A k \in 1..3 : DeclaresParents(Input[k])
    /\ Opened(2) = <<1, 2, 3>>


\* The 1-based numbers of the malformed lines among ls.
BadNumbers(ls) == {k \in 1..Len(ls) : ls[k].kind = "bad"}

\* w lists the numbers of S in increasing order.
Ascending(w, S) ==
    /\ Range(w) = S
    /\ \A i \in 1..Len(w) : \A j \in (i + 1)..Len(w) : w[i] < w[j]

\* C6: with a limit L below the number N of lines, no line after the L-th is
\* ever handed to the decoder, and once the parse loop has ended exactly the
\* first L lines have been: the malformed ones among them were skipped and
\* count toward L, so L - (malformed among the first L) records were parsed,
\* and they are the well-formed lines among the first L, in order.
C6_LimitCountsLines ==
    (args.limit # None /\ args.limit[1] < Len(file)) =>
        /\ line_no <= args.limit[1]
        /\ Parsed =>
              /\ line_no = args.limit[1]
              /\ Len(rows) = args.limit[1]
                               - Cardinality(BadNumbers(SubSeq(file, 1, args.limit[1])))
              /\ Len(warnings) = Cardinality(BadNumbers(SubSeq(file, 1, args.limit[1])))
        /\ pc = "tree" => rows = Decoded(SubSeq(file, 1, args.limit[1]))

\* C6 witness: three lines, a limit of 2, the first line malformed, the third
\* a record: one record was parsed.
C6_Witness ==
    /\ pc = "tree"
    /\ args.limit = Some(2)
    /\ Len(file) = 3
    /\ file[1].kind = "bad"
    /\ file[2].kind = "object"
    /\ file[3].kind = "object"
    /\ Len(rows) = 1
    /\ warnings = <<1>>

NoParents(r) == ~DeclaresParents(r)

\* C8 as stated: in both loaders and under both policies the indexing loop
\* never fails, and the records it has passed are roots exactly when they
\* declare no parent (span_parents empty or absent) or flatten is set; a record
\* without the span_parents field is indexed as a root.
C8_RootIffNoParents ==
    /\ err # "KeyError"
    /\ (pc = "index" \/ Indexed) =>
          \A k \in 1..row_no :
              Input[k].id \in Range(roots) <=> (NoParents(Input[k]) \/ args.flatten)

\* The indexing loop has stopped at a record that has no span_parents field.
C8_FailsOnMissingField ==
    /\ pc = "exit"
    /\ err = "KeyError"
    /\ row_no < Len(rows)
    /\ rows[row_no + 1].span_parents = Absent

\* Non-positive values are among the arguments.
InvalidArgs ==
    \/ args.iterations < 1
    \/ args.limit # None /\ args.limit[1] < 1
    \/ args.batch_size # None /\ args.batch_size[1] < 1

\* C9 as stated: a run given a non-positive value ends rejecting it, having
\* done nothing else: no existence check of the trace file, no login, no read,
\* no call on the backend; and so whether or not the file exists.
C9_RejectedBeforeAnyIO ==
    (InvalidArgs /\ pc = "exit") =>
        /\ err = "usage"
        /\ io = {}
        /\ events = <<>>

\* C9 amended: a run given a non-positive value never gets past validation:
\* it makes no login, never opens or reads the trace file and makes no call on
\* the backend.  The existence check of the trace file comes first: when the
\* file exists the values are rejected right after it, and when it does not the
\* run ends reporting the missing file and rejects nothing.
C9_RejectedAfterExistenceCheck ==
    InvalidArgs =>
        /\ pc \in {"start", "validate", "exit"}
        /\ io \subseteq {"exists"}
        /\ line_no = 0 /\ rows = <<>> /\ events = <<>>
        /\ pc = "exit" =>
              /\ io = {"exists"}
              /\ err = (IF file_exists THEN "usage" ELSE "missing_file")

\* C9 witness: a batch size of 0 has been rejected; the file exists.
C9_Witness ==
    /\ pc = "exit"
    /\ err = "usage"
    /\ file_exists
    /\ args.iterations = 1
    /\ args.limit = None
    /\ args.batch_size = Some(0)
    /\ Len(file) = 3

\* A backend call (open, attach, close, flush) has raised.
Failed == err = "backend"

IsOpenOrFlush(e) == e.op \in {"open", "flush"}

\* C10: a failure of a backend call ends the run in an error state at once:
\* the step in which the call fails emits no open and no flush (only the
\* closes of the `with` blocks the exception leaves, in load_braintrust), and
\* from then on nothing is emitted and the run stays ended.
C10_FailurePropagates ==
    [][/\ Failed' => pc' = "exit"
       /\ (~Failed /\ Failed') =>
             /\ IsPrefix(events, events')
             /\ \A i \in (Len(events) + 1)..Len(events') : events'[i].op = "close"
       /\ Failed => (Failed' /\ events' = events /\ pc' = "exit")]_vars

\* C10 witness: a call has failed inside the first root of the first of two
\* iterations, with another root left to replay.
C10_Witness ==
    /\ Failed
    /\ pc = "exit"
    /\ args.iterations = 2
    /\ iteration = 1
    /\ idx = 0
    /\ Len(roots) >= 2
    /\ \E i \in 1..Len(events) : events[i].op = "open"
    /\ \A i \in 1..Len(events) : events[i].op # "flush"

\* The index the indexing loop builds from the first n of the records rs.
RECURSIVE IndexOf(_, _, _)
IndexOf(rs, flatten, n) ==
    IF n = 0 THEN [roots |-> <<>>, children |-> <<>>]
    ELSE LET ix == IndexOf(rs, flatten, n - 1) IN
         IF IsChild(flatten, rs[n])
         THEN [ix EXCEPT !.children = AddChild(@, rs[n].span_parents.val, rs[n].id)]
         ELSE [ix EXCEPT !.roots = Append(@, rs[n].id)]

\* Units opened before iteration it.
UnitsBefore(it) ==
    Cardinality({i \in 1..Len(events) : events[i].op = "open" /\ events[i].iter < it})

\* The open, attach and close calls of iteration it: the record (hence the
\* name and the input/output payload), the model tag attached, and the unit
\* and its parent unit numbered from the iteration's first unit.
Calls(it) ==
    LET es == SelectSeq(EventsOf(it), LAMBDA e : e.op \in {"open", "attach", "close"})
        b == UnitsBefore(it)
    IN [i \in 1..Len(es) |->
          [op |-> es[i].op, row |-> es[i].row, model |-> es[i].model,
           unit |-> es[i].unit - b,
           parent |-> IF es[i].parent = 0 THEN 0 ELSE es[i].parent - b]]

\* C11: replay is deterministic.  The index is a function of the parsed
\* record sequence and the flatten policy alone (so two runs over the same
\* records with the same policy, by either loader, build the same roots and
\* children, and the replay never changes them), and within a run every
\* iteration that has replayed its roots made the same open, attach and close
\* calls as the first one: same records, same model tag, same nesting; the
\* calls of an iteration under way are a prefix of those of the first.
C11_Deterministic ==
    /\ Indexed =>
          /\ roots = IndexOf(Input, args.flatten, Len(Input)).roots
          /\ children = IndexOf(Input, args.flatten, Len(Input)).children
    /\ \A it \in 1..iteration :
          /\ err = "none" => IsPrefix(Calls(it), Calls(1))
          /\ Completed(it) => Calls(it) = Calls(1)

\* C11 witness: load_braintrust has replayed a root with a child twice; the
\* root's metadata was written in both iterations.
C11_Witness ==
    /\ pc = "done"
    /\ loader = "braintrust"
    /\ args.iterations = 2
    /\ ~args.flatten
    /\ Len(roots) >= 1
    /\ DOMAIN children # {}
    /\ Len(Calls(2)) >= 6
    /\ \E i \in 1..Len(Calls(2)) : Calls(2)[i].model = DEFAULT_MODEL

\* Root units closed so far in the iteration under way.
RootsClosedNow ==
    RootsClosed(EventsOf(iteration), Len(EventsOf(iteration)))

\* The flush at position i of es is followed by the opening of another root.
Interim(es, i) ==
    /\ es[i].op = "flush"
    /\ i < Len(es)
    /\ es[i + 1].op = "open"

\* C12: the step taken right after the j-th root of an iteration is closed
\* (j counted from 1 within the iteration) requests a flush if and only if a
\* batch size B is configured and j is a multiple of B; the request is made in
\* that step or not at all for this root.  So every flush that is followed
\* by another root of the same iteration comes directly after the close of a
\* root whose position is a positive multiple of B, and without a batch size
\* no flush is followed by another root of the iteration.
C12_InterimFlush ==
    [][/\ (pc = "governor" /\ err = "none") =>
             /\ RootsClosedNow >= 1
             /\ events[Len(events)].op = "close"
             /\ (events' = Append(events, FlushEvent) \/ err' = "backend")
                   <=> (args.batch_size # None
                          /\ RootsClosedNow % args.batch_size[1] = 0)
       /\ \A it \in 1..iteration : \A i \in 1..Len(EventsOf(it)) :
             Interim(EventsOf(it), i) =>
                /\ args.batch_size # None
                /\ Periodic(EventsOf(it), i, args.batch_size[1])]_vars

\* C12 witness: the second iteration of load_langsmith has closed its third
\* root with a batch size of 2: one flush so far in this iteration, after the
\* second root, and two in the first iteration (the second at its end).
C12_Witness ==
    /\ pc = "governor"
    /\ loader = "langsmith"
    /\ args.batch_size = Some(2)
    /\ iteration = 2
    /\ RootsClosedNow = 3
    /\ FlushCount(2) = 1
    /\ FlushCount(1) = 2
    /\ Interim(EventsOf(2), Len(EventsOf(2)) - 3)

\* The position of the last flush request among es, 0 when there is none.
LastFlush(es) ==
    LET F == {i \in 1..Len(es) : es[i].op = "flush"}
    IN IF F = {} THEN 0 ELSE CHOOSE i \in F : \A j \in F : j <= i

\* Root units closed among es since the most recent flush request.
SinceFlush(es) ==
    Cardinality({i \in (LastFlush(es) + 1)..Len(es) :
        /\ es[i].op = "close"
        /\ \E j \in 1..i : es[j].op = "open" /\ es[j].unit = es[i].unit
                             /\ es[j].parent = 0})

\* C13 as stated: with a batch size B, in every reachable state of either
\* loader at most B root trees have been closed since the most recent flush
\* request (or since the start of the run).
C13_AtMostBSinceFlush ==
    args.batch_size # None => SinceFlush(events) <= args.batch_size[1]

\* C13 amended: with a batch size B, at most B root trees have been closed
\* since the most recent flush request or the start of the iteration under
\* way, in both loaders.  In load_langsmith, which flushes at the end of every
\* iteration, at most B have been closed since the most recent flush request.
\* In load_braintrust the roots left unflushed at the end of an iteration
\* carry over to the next one: with K roots, at most B + (K mod B) have been
\* closed since the most recent flush request when K >= B, and all the roots
\* closed so far in the run when K < B.
C13_AtMostBPerIteration ==
    (args.batch_size # None /\ args.batch_size[1] >= 1) =>
        LET B == args.batch_size[1]
            K == Len(roots)
        IN /\ \A it \in 1..iteration : SinceFlush(EventsOf(it)) <= B
           /\ loader = "langsmith" => SinceFlush(events) <= B
           /\ loader = "braintrust" =>
                 SinceFlush(events) <= (IF K >= B THEN B + (K % B)
                                        ELSE iteration * K)

\* C13 witness: load_braintrust, a batch size of 2 and three roots: in the
\* second iteration three roots have been closed since the last flush
\* request, two of them in this iteration.
C13_Witness ==
    /\ loader = "braintrust"
    /\ args.batch_size = Some(2)
    /\ Len(roots) = 3
    /\ iteration = 2
    /\ pc = "governor"
    /\ err = "none"
    /\ SinceFlush(events) = 3
    /\ SinceFlush(EventsOf(2)) = 2

\* The units opened and not closed by the first n events.
OpenAt(n) ==
    {events[i].unit : i \in {j \in 1..n : events[j].op = "open"}}
        \ {events[i].unit : i \in {j \in 1..n : events[j].op = "close"}}

\* The top-level units: those opened under no parent.
TopLevel ==
    {events[i].unit : i \in {j \in 1..Len(events) :
                                events[j].op = "open" /\ events[j].parent = 0}}

\* C14: roots are replayed one after another.  At most one top-level unit is
\* open in any state; when the unit of a root is opened every unit opened
\* before it has been closed; when a flush is requested no unit is open: none
\* before any flush that was made, and none in the states from which the
\* governor, the end of an iteration or the end of the run request one.
C14_OneRootAtATime ==
    /\ Cardinality(OpenAt(Len(events)) \cap TopLevel) <= 1
    /\ \A i \in 1..Len(events) :
          ((events[i].op = "open" /\ events[i].parent = 0) \/ events[i].op = "flush")
              => OpenAt(i - 1) = {}
    /\ (pc \in {"governor", "root", "final"} /\ err = "none") =>
          /\ OpenAt(Len(events)) = {}
          /\ stack = <<>>

\* C14 witness: with a batch size of 1, the second root is open with a child
\* open under it; the first root had a child too and a flush followed it.
C14_Witness ==
    /\ args.batch_size = Some(1)
    /\ pc = "children"
    /\ idx = 1
    /\ Len(stack) = 2
    /\ Cardinality(OpenAt(Len(events))) = 2
    /\ Cardinality(TopLevel) = 2
    /\ \E i \in 1..Len(events) : events[i].op = "flush"

\* Event i attaches the payload of a top-level unit.
RootAttach(i) ==
    /\ events[i].op = "attach"
    /\ events[i].unit \in TopLevel

\* The rows emitted as nested units so far.
NestedRows ==
    {events[i].row : i \in {j \in 1..Len(events) :
                               events[j].op = "open" /\ events[j].parent # 0}}

\* The replay has left alone the metadata of every record emitted as a nested
\* unit.
NestedMetadataUntouched ==
    \A k \in NestedRows : rows[k].model = Input[k].model

\* C15 as stated: in both loaders the metadata attached to the top-level unit
\* of every root, in every iteration, carries the fixed model-name tag, and
\* the metadata of a record emitted as a nested unit is never modified.
C15_ModelTagAttached ==
    /\ \A i \in 1..Len(events) : RootAttach(i) => events[i].model = DEFAULT_MODEL
    /\ NestedMetadataUntouched

\* What holds of the code: load_braintrust attaches the tag with every root,
\* load_langsmith attaches the metadata as read from the file, and neither
\* modifies the metadata of a record emitted as a nested unit.
C15_TagInLoadBraintrustOnly ==
    /\ \A i \in 1..Len(events) :
          RootAttach(i) =>
             events[i].model = (IF loader = "braintrust" THEN DEFAULT_MODEL
                                ELSE Input[events[i].row].model)
    /\ loader = "langsmith" => \A k \in 1..Len(rows) : rows[k].model = Input[k].model
    /\ NestedMetadataUntouched

\* load_langsmith has replayed a root and attached its metadata without the
\* model tag.
C15_LangsmithAttachesOriginal ==
    /\ loader = "langsmith"
    /\ pc = "done"
    /\ \E i \in 1..Len(events) :
          /\ RootAttach(i)
          /\ events[i].model = ORIGINAL_MODEL
          /\ events[i].model # DEFAULT_MODEL

\* How many times x occurs in the sequence s.
Count(s, x) == Cardinality({i \in 1..Len(s) : s[i] = x})

\* C16 as stated: without flatten, once the index is built, the id of every
\* record that declares parents occurs exactly once in children[p] for each
\* distinct parent p it declares, also when a record lists a parent twice or
\* two records share an id.
C16_ExactlyOncePerParent ==
    (Indexed /\ ~args.flatten) =>
        \A k \in 1..Len(Input) :
            DeclaresParents(Input[k]) =>
                \A p \in Range(Input[k].span_parents.val) :
                    Count(ChildrenOf(children, p), Input[k].id) = 1

\* What holds of the code: an id occurs in children[p] once per listing of p
\* by a record that carries the id, repeats and shared ids included.
C16_OncePerListing ==
    (Indexed /\ ~args.flatten) =>
        \A p \in Range(SpanNames) : \A x \in Range(IdNames) :
            Count(ChildrenOf(children, p), x)
                = Cardinality({kn \in (1..Len(Input)) \X (1..2) :
                      /\ Input[kn[1]].id = x
                      /\ DeclaresParents(Input[kn[1]])
                      /\ kn[2] <= Len(Input[kn[1]].span_parents.val)
                      /\ Input[kn[1]].span_parents.val[kn[2]] = p})

\* The index holds an id twice under one parent: a record lists the parent
\* twice, and its unit has been emitted twice under the parent's unit.
C16_ListedTwice ==
    /\ pc = "done"
    /\ ~args.flatten
    /\ \E k \in 1..Len(Input) :
          /\ Input[k].span_parents = List(<<"a", "a">>)
          /\ Count(ChildrenOf(children, "a"), Input[k].id) = 2
          /\ \E i, j \in 1..Len(events) :
                /\ i < j
                /\ events[i].op = "open" /\ events[j].op = "open"
                /\ events[i].row = events[j].row
                /\ events[i].parent = events[j].parent
                /\ events[i].parent # 0

\* The ids of the records rs, in order.
IdsOf(rs) == [k \in 1..Len(rs) |-> rs[k].id]

\* The records of the input that the index takes as roots, and those it takes
\* as children of p.
RootRecords == SelectSeq(Input, LAMBDA r : args.flatten \/ NoParents(r))
RecordsUnder(p) ==
    SelectSeq(Input, LAMBDA r : /\ ~args.flatten
                                /\ DeclaresParents(r)
                                /\ p \in Range(r.span_parents.val))

\* The rows of the units event i's unit has had opened directly under it, in
\* order (i = 0: the top-level units of iteration it).
OpenedUnder(i, it) ==
    LET u == IF i = 0 THEN 0 ELSE events[i].unit
        os == SelectSeq(EventsOf(it), LAMBDA e : e.op = "open" /\ e.parent = u)
    IN [n \in 1..Len(os) |-> os[n].row]

\* The rows named by the ids s.
RowsOf(s) == [n \in 1..Len(s) |-> tree[s[n]]]

\* The unit opened by event i has been closed.
Closed(i) ==
    \E j \in (i + 1)..Len(events) :
        events[j].op = "close" /\ events[j].unit = events[i].unit

\* C17: once the index is built, roots lists the ids of the root records in
\* input order, and children[p] lists, for every parent p, the ids of the
\* records that name p in input order, adjacent or not, and nothing else.
\* Every iteration opens the top-level units in the order of roots, and under
\* every unit the nested units in the order of children[span_id]: what has
\* been opened so far is always a prefix of that order, and all of it once the
\* iteration has replayed its roots or the unit has been closed.
C17_InputOrder ==
    Indexed =>
        /\ roots = IdsOf(RootRecords)
        /\ \A p \in Range(SpanNames) :
              ChildrenOf(children, p) = IdsOf(RecordsUnder(p))
        /\ DOMAIN children \subseteq Range(SpanNames)
        /\ \A it \in 1..iteration :
              /\ IsPrefix(OpenedUnder(0, it), RowsOf(roots))
              /\ Completed(it) => OpenedUnder(0, it) = RowsOf(roots)
        /\ \A i \in 1..Len(events) :
              events[i].op = "open" =>
                 LET ks == RowsOf(ChildrenOf(children, rows[events[i].row].span_id))
                     it == events[i].iter
                 IN /\ IsPrefix(OpenedUnder(i, it), ks)
                    /\ (err = "none" /\ Closed(i)) => OpenedUnder(i, it) = ks

\* C17 witness: B is a root; A, before it in the input, and C, after it, name
\* B's span_id.  The run has ended with children["b"] = <<"A", "C">> and the
\* units opened in the order B, A, C.
C17_Witness ==
    /\ pc = "done"
    /\ ~args.flatten
    /\ roots = <<"B">>
    /\ ChildrenOf(children, "b") = <<"A", "C">>
    /\ Opened(1) = <<2, 1, 3>>

\* The parsed records have pairwise different span_ids / ids.
UniqueSpanIds ==
    \A j, k \in 1..Len(Input) : j # k => Input[j].span_id # Input[k].span_id
UniqueIds ==
    \A j, k \in 1..Len(Input) : j # k => Input[j].id # Input[k].id

\* Every parsed record declares one parent at most.
OneParentAtMost ==
    \A k \in 1..Len(Input) : Len(Input[k].span_parents.val) <= 1

\* The run has ended or can take a step.
Progress == pc \in {"done", "exit"} \/ ENABLED Next

\* The replay of a forest: the recursion is never cut off and never deeper
\* than the number of records, an iteration opens at most one unit per
\* record (so it cannot go on for ever), an iteration that has replayed its
\* roots has closed every unit it opened, and the run is never stuck.
ForestReplay ==
    /\ err # "RecursionError"
    /\ Len(stack) <= Len(rows)
    /\ Progress
    /\ \A it \in 1..iteration :
          /\ Len(Opened(it)) <= Len(rows)
          /\ Completed(it) =>
                {e.unit : e \in {x \in Range(EventsOf(it)) : x.op = "open"}}
                  = {e.unit : e \in {x \in Range(EventsOf(it)) : x.op = "close"}}

C18_SharedIdRecursion ==
    /\ pc = "exit"
    /\ err = "RecursionError"
    /\ ~args.flatten
    /\ UniqueSpanIds /\ OneParentAtMost /\ ~UniqueIds
    /\ Len(rows) = 2

\* The rows replayed as roots, and the rows registered as children of row k.
RootRows == Range(RowsOf(roots))
ChildRows(k) == RowsOf(ChildrenOf(children, rows[k].span_id))

\* The rows reached from the rows S by following at most n child links.
RECURSIVE ReachFrom(_, _)
ReachFrom(S, n) ==
    IF n = 0 THEN S
    ELSE ReachFrom(S \cup UNION {Range(ChildRows(k)) : k \in S}, n - 1)

\* The rows that are roots or reachable from a root.
Reachable == ReachFrom(RootRows, Len(rows))

\* The number of paths of at most d links from a root to row k, a row listed
\* twice under a parent counting twice: PathsVia adds up the paths that come
\* through the parents 1..j.
RECURSIVE PathsTo(_, _), PathsVia(_, _, _)
PathsTo(k, d) ==
    Count(RowsOf(roots), k) + (IF d = 0 THEN 0 ELSE PathsVia(k, d, Len(rows)))
PathsVia(k, d, j) ==
    IF j = 0 THEN 0
    ELSE PathsVia(k, d, j - 1) + Count(ChildRows(j), k) * PathsTo(j, d - 1)

\* C19: without flatten, a unit is only ever opened for a record that is a
\* root or reachable from a root through children[span_id]; an iteration that
\* has replayed its roots has opened every such record once per path from a
\* root, and no other record.  A record none of whose declared parents is the
\* span_id of a reachable record is therefore never emitted, and no error is
\* raised for it: after indexing a run ends abnormally only when a backend
\* call fails or when the recursion is cut off, which happens only for a
\* record that is reachable from a root and from itself.
C19_OpenedIffReachable ==
    (Indexed /\ ~args.flatten) =>
        /\ \A i \in 1..Len(events) :
              events[i].op = "open" => events[i].row \in Reachable
        /\ \A it \in 1..iteration :
              Completed(it) =>
                 \A k \in 1..Len(rows) :
                     Count(Opened(it), k) = PathsTo(k, Len(rows))
        /\ err \in {"none", "backend", "RecursionError"}
        /\ err = "RecursionError" =>
              \E k \in Reachable : k \in ReachFrom(Range(ChildRows(k)), Len(rows))

\* C19 witness: A is a root, the second line is malformed, and C names the
\* span_id the second line would have carried.  Both iterations have opened
\* A's unit alone and the run has ended without an error.
C19_Witness ==
    /\ pc = "done"
    /\ err = "none"
    /\ ~args.flatten
    /\ args.iterations = 2
    /\ file = <<RecordLine(1, List(<<>>)), BadLine, RecordLine(3, List(<<"b">>))>>
    /\ Len(rows) = 2
    /\ Reachable = {1}
    /\ Opened(1) = <<1>>
    /\ Opened(2) = <<1>>

\* A record with two parents has been opened once per path: A is a root, B a
\* child of A, C a child of A and of B; C's unit was opened twice.
C19_OncePerPath ==
    /\ pc = "done"
    /\ ~args.flatten
    /\ file = <<RecordLine(1, List(<<>>)), RecordLine(2, List(<<"a">>)),
                RecordLine(3, List(<<"a", "b">>))>>
    /\ Count(Opened(1), 3) = 2

====
